---- MODULE Spec2Model ----
(***************************************************************************)
(* Model of bullets.portfolio.portfolio.Portfolio: order execution,        *)
(* holdings bookkeeping and evaluation of pending stop/limit orders.       *)
(*                                                                         *)
(* Python's None is the empty sequence and a present value x is <<x>>, so  *)
(* that "is None" stays a test the model can make.  The holdings dict is   *)
(* a sequence of holdings in insertion order (a Python dict iterates in    *)
(* insertion order).  An exception raised by an operation is recorded in   *)
(* fault; the state keeps whatever the operation had written before the    *)
(* raise, as the Python object does.  submitted_as is a history variable:   *)
(* for each pending collection, the entry point that appended each of its  *)
(* orders (an Order itself carries symbol, nb_shares and price only).      *)
(***************************************************************************)
EXTENDS Integers, Sequences, FiniteSets, TLC

VARIABLES start_balance, cash_balance, holdings, transactions, timestamp,
          slippage_percent, transaction_fees, resolution,
          pending_buy_limit_orders, pending_sell_limit_orders,
          pending_buy_stop_orders, pending_sell_stop_orders,
          quote, high, returned_balance, returned_profit, fault, submitted_as

vars == <<start_balance, cash_balance, holdings, transactions, timestamp,
          slippage_percent, transaction_fees, resolution,
          pending_buy_limit_orders, pending_sell_limit_orders,
          pending_buy_stop_orders, pending_sell_stop_orders,
          quote, high, returned_balance, returned_profit, fault, submitted_as>>

(* ------------------------------ bounds --------------------------------- *)
\* Orders a run creates: pending orders plus recorded transactions.
MaxOrders == 2

(* --------------------------- input domains ----------------------------- *)
None == <<>>
Some(x) == <<x>>

Symbols == {"AAPL", "MSFT"}
Timestamps == {1}
ShareQuantities == {-10, 0, 10}
OrderQuantities == {0, 10}
TriggerPrices == {95}
\* What the price source answers at one timestamp: the price of each symbol,
\* and the day's high of each symbol.
Quotes == {[AAPL |-> Some(100), MSFT |-> Some(100)],
           [AAPL |-> Some(90), MSFT |-> Some(100)],
           [AAPL |-> None, MSFT |-> Some(90)]}
Highs == {[AAPL |-> Some(110), MSFT |-> Some(110)],
          [AAPL |-> Some(110), MSFT |-> None]}
StartBalances == {1000, 10000}
SlippagePercents == {10}
TransactionFees == {5}
Resolutions == {"DAILY", "MINUTE"}

NoFault == "none"

(* ------------------------------ records -------------------------------- *)
Order(symbol, nb_shares, price) ==
    [symbol |-> symbol, nb_shares |-> nb_shares, price |-> price]

Transaction(symbol, nb_shares, theoretical_price, simulated_price, ts, cash, status, fees, order_type) ==
    [symbol |-> symbol, nb_shares |-> nb_shares,
     theoretical_price |-> theoretical_price,
     simulated_price |-> simulated_price, timestamp |-> ts,
     cash_balance |-> cash, status |-> status,
     transaction_fees |-> fees, order_type |-> order_type]

\* An average entry price is a fraction num/den in lowest terms, den > 0.
RECURSIVE GCD(_, _)
GCD(a, b) == IF b = 0 THEN a ELSE GCD(b, a % b)

Abs(x) == IF x < 0 THEN -x ELSE x

Ratio(num, den) ==
    LET g == GCD(Abs(num), Abs(den))
        sign == IF den < 0 THEN -1 ELSE 1
    IN [num |-> sign * (num \div g), den |-> sign * (den \div g)]

\* A holding carries its share count, its average entry price and its mark
\* price.
Holding(symbol) ==
    [symbol |-> symbol, nb_shares |-> 0, average_price |-> Ratio(0, 1),
     current_price |-> None]

\* The merge of a fill into a position: the share count is old + signed
\* shares; a fill that opens or extends the position in its direction gives
\* the weighted average entry price; a fill that offsets it leaves the entry
\* price alone, and one that carries it through zero opens the rest at the
\* fill price.
add_shares(holding, nb_shares, price) ==
    LET old == holding.nb_shares
        new == old + nb_shares
        avg == holding.average_price
    IN [holding EXCEPT
          !.nb_shares = new,
          !.average_price =
              IF nb_shares = 0 \/ new = 0 THEN avg
              ELSE IF old * nb_shares >= 0
              THEN Ratio(old * avg.num + nb_shares * price * avg.den, avg.den * new)
              ELSE IF old * new > 0 THEN avg
              ELSE Ratio(price, 1)]

(* --------------------------- the price source -------------------------- *)
get_price(symbol) == quote[symbol]

get_high_price(symbol) == high[symbol]

(* ---------------------------- holdings dict ---------------------------- *)
HasHolding(hs, symbol) == \E i \in 1..Len(hs) : hs[i].symbol = symbol

IndexOf(hs, symbol) == CHOOSE i \in 1..Len(hs) : hs[i].symbol = symbol

SharesOf(hs, symbol) ==
    IF HasHolding(hs, symbol) THEN hs[IndexOf(hs, symbol)].nb_shares ELSE 0

RemoveAt(hs, i) == [j \in 1..(Len(hs) - 1) |-> IF j < i THEN hs[j] ELSE hs[j + 1]]

(* ------------------------------ slippage ------------------------------- *)
\* theoretical_price is a number here; the result is [fault, value].
_get_daily_high_price(symbol) ==
    IF timestamp = None
    THEN [fault |-> "AttributeError", value |-> None]
    ELSE [fault |-> NoFault, value |-> get_high_price(symbol)]

\* _get_slippage_price with the difference of line 166 taken the other way
\* round (theoretical_price - daily_high_price).
Slippage_TowardsLow(theoretical_price, slippage, symbol) ==
    IF resolution # "DAILY"
    THEN [fault |-> NoFault, value |-> theoretical_price]
    ELSE LET daily_high_price == _get_daily_high_price(symbol) IN
         IF daily_high_price.fault # NoFault
         THEN [fault |-> daily_high_price.fault, value |-> 0]
         ELSE IF daily_high_price.value = None
         THEN [fault |-> "TypeError", value |-> 0]
         ELSE LET slippage_factor ==
                      ((theoretical_price - daily_high_price.value[1]) * slippage) \div 100
              IN [fault |-> NoFault, value |-> theoretical_price + slippage_factor]

\* The quotes, highs and slippage percents of the input domains make
\* (daily_high - theoretical) * slippage a multiple of 100, so the integer
\* quotient is the product the code computes in floating point.
_get_slippage_price(theoretical_price, slippage, symbol) ==
    IF resolution # "DAILY"
    THEN [fault |-> NoFault, value |-> theoretical_price]
    ELSE LET daily_high_price == _get_daily_high_price(symbol) IN
         IF daily_high_price.fault # NoFault
         THEN [fault |-> daily_high_price.fault, value |-> 0]
         ELSE IF daily_high_price.value = None
         THEN [fault |-> "TypeError", value |-> 0]
         ELSE LET slippage_factor ==
                      ((daily_high_price.value[1] - theoretical_price) * slippage) \div 100
              IN [fault |-> NoFault, value |-> theoretical_price + slippage_factor]

(* ------------------------- seeded faults ------------------------------- *)
\* Variants of the validator with one slip each, used to show that the
\* properties below depend on it:
\*   "debit_without_fee"     the debit of line 152 leaves the fee out;
\*   "check_without_fee"     the funds check of line 151 leaves the fee out;
\*   "fee_on_missing_price"  the fee is charged although no price was found;
\*   "record_cash_before"    the transaction is built before the debit.
ValidateVariant(cash, symbol, nb_shares, theoretical_price, slippage, fees, order_type, slip) ==
    IF theoretical_price = None
    THEN LET left == IF slip = "fee_on_missing_price" THEN cash - fees ELSE cash IN
         [fault |-> NoFault, cash_balance |-> left,
          transaction |-> Transaction(symbol, nb_shares, theoretical_price, None,
                                      timestamp, left, "FAILED_SYMBOL_NOT_FOUND",
                                      fees, order_type)]
    ELSE LET sp == _get_slippage_price(theoretical_price[1], slippage, symbol) IN
         IF sp.fault # NoFault
         THEN [fault |-> sp.fault, cash_balance |-> cash, transaction |-> None]
         ELSE LET simulated_price == sp.value
                  checked == IF slip = "check_without_fee"
                             THEN nb_shares * simulated_price
                             ELSE nb_shares * simulated_price + fees
                  total == IF slip = "debit_without_fee"
                           THEN nb_shares * simulated_price
                           ELSE nb_shares * simulated_price + fees
              IN IF cash >= checked
                 THEN [fault |-> NoFault, cash_balance |-> cash - total,
                       transaction |-> Transaction(symbol, nb_shares, theoretical_price,
                                                   Some(simulated_price), timestamp,
                                                   IF slip = "record_cash_before"
                                                   THEN cash ELSE cash - total,
                                                   "SUCCESSFUL",
                                                   fees, order_type)]
                 ELSE [fault |-> NoFault, cash_balance |-> cash,
                       transaction |-> Transaction(symbol, nb_shares, theoretical_price,
                                                   Some(simulated_price), timestamp,
                                                   cash, "FAILED_INSUFFICIENT_FUNDS",
                                                   fees, order_type)]

Validate_DebitWithoutFee(cash, symbol, nb_shares, theoretical_price, slippage, fees, order_type) ==
    ValidateVariant(cash, symbol, nb_shares, theoretical_price, slippage, fees,
                    order_type, "debit_without_fee")

Validate_CheckWithoutFee(cash, symbol, nb_shares, theoretical_price, slippage, fees, order_type) ==
    ValidateVariant(cash, symbol, nb_shares, theoretical_price, slippage, fees,
                    order_type, "check_without_fee")

Validate_FeeOnMissingPrice(cash, symbol, nb_shares, theoretical_price, slippage, fees, order_type) ==
    ValidateVariant(cash, symbol, nb_shares, theoretical_price, slippage, fees,
                    order_type, "fee_on_missing_price")

Validate_RecordsCashBefore(cash, symbol, nb_shares, theoretical_price, slippage, fees, order_type) ==
    ValidateVariant(cash, symbol, nb_shares, theoretical_price, slippage, fees,
                    order_type, "record_cash_before")

\* _put_holding with the removal of line 189 left out: a holding that reaches
\* zero shares is stored like any other.
PutHolding_NeverRemoves(hs, symbol, nb_shares, price) ==
    LET present == HasHolding(hs, symbol)
        holding == IF present THEN hs[IndexOf(hs, symbol)] ELSE Holding(symbol)
        merged == add_shares(holding, nb_shares, price)
    IN IF present
       THEN [fault |-> NoFault, holdings |-> [hs EXCEPT ![IndexOf(hs, symbol)] = merged]]
       ELSE [fault |-> NoFault, holdings |-> Append(hs, merged)]

(* ------------------- transaction validator and factory ----------------- *)
\* Result: [fault, cash_balance, transaction]; on a fault nothing was written
\* and no transaction exists.
_validate_and_create_transaction(cash, symbol, nb_shares, theoretical_price, slippage, fees, order_type) ==
    IF theoretical_price = None
    THEN [fault |-> NoFault, cash_balance |-> cash,
          transaction |-> Transaction(symbol, nb_shares, theoretical_price, None,
                                      timestamp, cash, "FAILED_SYMBOL_NOT_FOUND",
                                      fees, order_type)]
    ELSE LET sp == _get_slippage_price(theoretical_price[1], slippage, symbol) IN
         IF sp.fault # NoFault
         THEN [fault |-> sp.fault, cash_balance |-> cash, transaction |-> None]
         ELSE LET simulated_price == sp.value
                  total == nb_shares * simulated_price + fees
              IN IF cash >= total
                 THEN [fault |-> NoFault, cash_balance |-> cash - total,
                       transaction |-> Transaction(symbol, nb_shares, theoretical_price,
                                                   Some(simulated_price), timestamp,
                                                   cash - total, "SUCCESSFUL",
                                                   fees, order_type)]
                 ELSE [fault |-> NoFault, cash_balance |-> cash,
                       transaction |-> Transaction(symbol, nb_shares, theoretical_price,
                                                   Some(simulated_price), timestamp,
                                                   cash, "FAILED_INSUFFICIENT_FUNDS",
                                                   fees, order_type)]

(* ---------------------------- holdings ledger -------------------------- *)
\* Result: [fault, holdings].  add_shares mutates the holding in place, so a
\* holding already in the dict carries the new share count whatever follows.
_put_holding(hs, symbol, nb_shares, price) ==
    LET present == HasHolding(hs, symbol)
        holding == IF present THEN hs[IndexOf(hs, symbol)] ELSE Holding(symbol)
        merged == add_shares(holding, nb_shares, price)
    IN IF merged.nb_shares = 0
       THEN IF present
            THEN [fault |-> NoFault, holdings |-> RemoveAt(hs, IndexOf(hs, symbol))]
            ELSE [fault |-> "KeyError", holdings |-> hs]
       ELSE IF present
            THEN [fault |-> NoFault,
                  holdings |-> [hs EXCEPT ![IndexOf(hs, symbol)] = merged]]
            ELSE [fault |-> NoFault, holdings |-> Append(hs, merged)]

(* ------------------------------ _order --------------------------------- *)
\* _order handing the quoted price, not the simulated one, to the ledger.
Order_FillsAtTheoreticalPrice(p, symbol, nb_shares, order_type) ==
    LET theoretical_price == get_price(symbol)
        v == _validate_and_create_transaction(p.cash_balance, symbol, nb_shares,
                                              theoretical_price, slippage_percent,
                                              transaction_fees, order_type)
    IN IF v.fault # NoFault
       THEN [p EXCEPT !.fault = v.fault]
       ELSE LET appended == Append(p.transactions, v.transaction) IN
            IF v.transaction.status = "SUCCESSFUL"
            THEN LET h == _put_holding(p.holdings, symbol, nb_shares,
                                       theoretical_price[1])
                 IN [cash_balance |-> v.cash_balance, holdings |-> h.holdings,
                     transactions |-> appended, fault |-> h.fault]
            ELSE [cash_balance |-> v.cash_balance, holdings |-> p.holdings,
                  transactions |-> appended, fault |-> NoFault]

\* _order with the status test of line 52 left out: an order refused for
\* lack of funds is entered in the ledger like a filled one.
Order_FillsRefusedOrders(p, symbol, nb_shares, order_type) ==
    LET theoretical_price == get_price(symbol)
        v == _validate_and_create_transaction(p.cash_balance, symbol, nb_shares,
                                              theoretical_price, slippage_percent,
                                              transaction_fees, order_type)
    IN IF v.fault # NoFault
       THEN [p EXCEPT !.fault = v.fault]
       ELSE LET appended == Append(p.transactions, v.transaction) IN
            IF v.transaction.simulated_price # None
            THEN LET h == _put_holding(p.holdings, symbol, nb_shares,
                                       v.transaction.simulated_price[1])
                 IN [cash_balance |-> v.cash_balance, holdings |-> h.holdings,
                     transactions |-> appended, fault |-> h.fault]
            ELSE [cash_balance |-> v.cash_balance, holdings |-> p.holdings,
                  transactions |-> appended, fault |-> NoFault]

\* p is the part of self an order attempt reads and writes:
\* [cash_balance, holdings, transactions, fault].
_order(p, symbol, nb_shares, order_type) ==
    LET theoretical_price == get_price(symbol)
        v == _validate_and_create_transaction(p.cash_balance, symbol, nb_shares,
                                              theoretical_price, slippage_percent,
                                              transaction_fees, order_type)
    IN IF v.fault # NoFault
       THEN [p EXCEPT !.fault = v.fault]
       ELSE LET appended == Append(p.transactions, v.transaction) IN
            IF v.transaction.status = "SUCCESSFUL"
            THEN LET h == _put_holding(p.holdings, symbol, nb_shares,
                                       v.transaction.simulated_price[1])
                 IN [cash_balance |-> v.cash_balance, holdings |-> h.holdings,
                     transactions |-> appended, fault |-> h.fault]
            ELSE [cash_balance |-> v.cash_balance, holdings |-> p.holdings,
                  transactions |-> appended, fault |-> NoFault]

Self == [cash_balance |-> cash_balance, holdings |-> holdings,
         transactions |-> transactions, fault |-> NoFault]

(* ------------------------------ actions -------------------------------- *)
Config == <<start_balance, slippage_percent, transaction_fees, resolution>>
Pending == <<pending_buy_limit_orders, pending_sell_limit_orders,
             pending_buy_stop_orders, pending_sell_stop_orders>>
Market == <<timestamp, quote, high>>

PendingCount == Len(pending_buy_limit_orders) + Len(pending_sell_limit_orders)
                + Len(pending_buy_stop_orders) + Len(pending_sell_stop_orders)

\* The day's high is read under daily resolution only, and only once the
\* timestamp is set (_get_daily_high_price reads self.timestamp.year first).
NoHighRead == [s \in Symbols |-> Some(110)]

HighChoices == IF resolution = "DAILY" THEN Highs ELSE {NoHighRead}

Init ==
    /\ start_balance \in StartBalances
    /\ cash_balance = start_balance
    /\ holdings = <<>>
    /\ transactions = <<>>
    /\ timestamp = None
    /\ slippage_percent \in SlippagePercents
    /\ transaction_fees \in TransactionFees
    /\ resolution \in Resolutions
    /\ pending_buy_limit_orders = <<>>
    /\ pending_sell_limit_orders = <<>>
    /\ pending_buy_stop_orders = <<>>
    /\ pending_sell_stop_orders = <<>>
    /\ quote \in Quotes
    /\ high = NoHighRead
    /\ returned_balance = None
    /\ returned_profit = None
    /\ fault = NoFault
    /\ submitted_as = [buy_limit |-> <<>>, sell_limit |-> <<>>,
                       buy_stop |-> <<>>, sell_stop |-> <<>>]

advance_time ==
    /\ fault = NoFault
    /\ \E t \in Timestamps :
          /\ IF timestamp = None THEN TRUE ELSE timestamp[1] < t
          /\ timestamp' = Some(t)
    /\ quote' \in Quotes
    /\ high' \in HighChoices
    /\ returned_balance' = None
    /\ returned_profit' = None
    /\ fault' = NoFault
    /\ UNCHANGED <<Config, Pending, cash_balance, holdings, transactions, submitted_as>>

market_order(symbol, nb_shares) ==
    /\ fault = NoFault
    /\ Len(transactions) + PendingCount < MaxOrders
    /\ LET q == _order(Self, symbol, nb_shares, "Market Order") IN
       /\ cash_balance' = q.cash_balance
       /\ holdings' = q.holdings
       /\ transactions' = q.transactions
       /\ fault' = q.fault
    /\ returned_balance' = None
    /\ returned_profit' = None
    /\ UNCHANGED <<Config, Pending, Market, submitted_as>>

Submit(list, order) ==
    /\ fault = NoFault
    /\ Len(transactions) + PendingCount < MaxOrders
    /\ list' = Append(list, order)
    /\ returned_balance' = None
    /\ returned_profit' = None
    /\ fault' = NoFault
    /\ UNCHANGED <<Config, Market, cash_balance, holdings, transactions>>

buy_limit_order(symbol, nb_shares, price) ==
    /\ submitted_as' = [submitted_as EXCEPT !.buy_stop = Append(@, "buy_limit_order")]
    /\ Submit(pending_buy_stop_orders, Order(symbol, nb_shares, price))
    /\ UNCHANGED <<pending_buy_limit_orders, pending_sell_limit_orders,
                   pending_sell_stop_orders>>

sell_limit_order(symbol, nb_shares, price) ==
    /\ submitted_as' = [submitted_as EXCEPT !.sell_stop = Append(@, "sell_limit_order")]
    /\ Submit(pending_sell_stop_orders, Order(symbol, -nb_shares, price))
    /\ UNCHANGED <<pending_buy_limit_orders, pending_sell_limit_orders,
                   pending_buy_stop_orders>>

buy_stop_order(symbol, nb_shares, price) ==
    /\ submitted_as' = [submitted_as EXCEPT !.buy_stop = Append(@, "buy_stop_order")]
    /\ Submit(pending_buy_stop_orders, Order(symbol, nb_shares, price))
    /\ UNCHANGED <<pending_buy_limit_orders, pending_sell_limit_orders,
                   pending_sell_stop_orders>>

sell_stop_order(symbol, nb_shares, price) ==
    /\ submitted_as' = [submitted_as EXCEPT !.sell_stop = Append(@, "sell_stop_order")]
    /\ Submit(pending_sell_stop_orders, Order(symbol, -nb_shares, price))
    /\ UNCHANGED <<pending_buy_limit_orders, pending_sell_limit_orders,
                   pending_buy_stop_orders>>

(* --------------------------- tick evaluation --------------------------- *)
\* "le" is price <= order.price, "ge" is price >= order.price.
Compare(cmp, price, trigger) ==
    IF cmp = "le" THEN price <= trigger ELSE price >= trigger

\* One for-loop of on_resolution: comparing an absent price raises TypeError,
\* and an exception leaves the loop and the handler.
RECURSIVE RunOrders(_, _, _, _)
RunOrders(p, orders, cmp, order_type) ==
    IF orders = <<>> \/ p.fault # NoFault THEN p
    ELSE LET order == Head(orders)
             price == get_price(order.symbol)
         IN IF price = None
            THEN [p EXCEPT !.fault = "TypeError"]
            ELSE IF Compare(cmp, price[1], order.price)
            THEN RunOrders(_order(p, order.symbol, order.nb_shares, order_type),
                           Tail(orders), cmp, order_type)
            ELSE RunOrders(p, Tail(orders), cmp, order_type)

RunTick(p) ==
    LET p1 == RunOrders(p, pending_buy_stop_orders, "le", "Buy Stop Order")
        p2 == RunOrders(p1, pending_sell_stop_orders, "ge", "Sell Stop Order")
        p3 == RunOrders(p2, pending_buy_limit_orders, "le", "Buy Limit Order")
    IN RunOrders(p3, pending_sell_limit_orders, "ge", "Sell Limit Order")

on_resolution ==
    /\ fault = NoFault
    /\ Len(transactions) < MaxOrders
    /\ LET q == RunTick(Self) IN
       /\ cash_balance' = q.cash_balance
       /\ holdings' = q.holdings
       /\ transactions' = q.transactions
       /\ fault' = q.fault
    /\ returned_balance' = None
    /\ returned_profit' = None
    /\ UNCHANGED <<Config, Pending, Market, submitted_as>>

(* ------------------------------ valuation ------------------------------ *)
\* v is [holdings, balance, fault]; the mark price is assigned before the
\* product is taken, so a holding whose price is absent keeps the absent mark.
RECURSIVE Revalue(_, _)
Revalue(v, i) ==
    IF i > Len(v.holdings) \/ v.fault # NoFault THEN v
    ELSE LET price == get_price(v.holdings[i].symbol)
             hs == [v.holdings EXCEPT ![i].current_price = price]
         IN IF price = None
            THEN [holdings |-> hs, balance |-> v.balance, fault |-> "TypeError"]
            ELSE Revalue([holdings |-> hs,
                          balance |-> v.balance + hs[i].nb_shares * price[1],
                          fault |-> NoFault], i + 1)

\* update_and_get_balance writing the valuation back into the cash balance.
Update_StoresBalanceAsCash ==
    /\ fault = NoFault
    /\ LET v == Revalue([holdings |-> holdings, balance |-> cash_balance,
                         fault |-> NoFault], 1) IN
       /\ holdings' = v.holdings
       /\ fault' = v.fault
       /\ returned_balance' = IF v.fault = NoFault THEN Some(v.balance) ELSE None
       /\ returned_profit' = None
       /\ cash_balance' = IF v.fault = NoFault THEN v.balance ELSE cash_balance
    /\ UNCHANGED <<Config, Pending, Market, transactions, submitted_as>>

update_and_get_balance ==
    /\ fault = NoFault
    /\ LET v == Revalue([holdings |-> holdings, balance |-> cash_balance,
                         fault |-> NoFault], 1) IN
       /\ holdings' = v.holdings
       /\ fault' = v.fault
       /\ returned_balance' = IF v.fault = NoFault THEN Some(v.balance) ELSE None
       /\ returned_profit' = None
    /\ UNCHANGED <<Config, Pending, Market, cash_balance, transactions, submitted_as>>

\* round(num / den * 100 - 100, 2) in hundredths of a percent: the nearest
\* integer to num * 10000 / den, ties to the even one, minus 10000.
PercentageProfit(num, den) ==
    LET twice == 2 * num * 10000 + den
        up    == twice \div (2 * den)
        tie   == twice % (2 * den) = 0
    IN (IF tie /\ up % 2 = 1 THEN up - 1 ELSE up) - 10000

\* get_percentage_profit writing the valuation back into the cash balance.
Profit_WritesCash ==
    /\ fault = NoFault
    /\ LET v == Revalue([holdings |-> holdings, balance |-> cash_balance,
                         fault |-> NoFault], 1) IN
       /\ holdings' = v.holdings
       /\ fault' = v.fault
       /\ returned_profit' = IF v.fault = NoFault
                             THEN Some(PercentageProfit(v.balance, start_balance))
                             ELSE None
       /\ cash_balance' = IF v.fault = NoFault THEN v.balance ELSE cash_balance
    /\ returned_balance' = None
    /\ UNCHANGED <<Config, Pending, Market, transactions, submitted_as>>

\* get_percentage_profit() values the portfolio with update_and_get_balance
\* and returns the profit against the start balance.
get_percentage_profit ==
    /\ fault = NoFault
    /\ LET v == Revalue([holdings |-> holdings, balance |-> cash_balance,
                         fault |-> NoFault], 1) IN
       /\ holdings' = v.holdings
       /\ fault' = v.fault
       /\ returned_profit' = IF v.fault = NoFault
                             THEN Some(PercentageProfit(v.balance, start_balance))
                             ELSE None
    /\ returned_balance' = None
    /\ UNCHANGED <<Config, Pending, Market, cash_balance, transactions, submitted_as>>

Next ==
    \/ advance_time
    \/ \E s \in Symbols, n \in ShareQuantities : market_order(s, n)
    \/ \E s \in Symbols, n \in OrderQuantities, t \in TriggerPrices :
          \/ buy_limit_order(s, n, t)
          \/ sell_limit_order(s, n, t)
          \/ buy_stop_order(s, n, t)
          \/ sell_stop_order(s, n, t)
    \/ on_resolution
    \/ update_and_get_balance
    \/ get_percentage_profit

Spec == Init /\ [][Next]_vars

(* ====================== properties of the order path =================== *)
Last(seq) == seq[Len(seq)]

\* The transactions a step appended.
AppendedBy(before, after) == SubSeq(after, Len(before) + 1, Len(after))

IsPrefix(a, b) == Len(a) <= Len(b) /\ SubSeq(b, 1, Len(a)) = a

Statuses == {"SUCCESSFUL", "FAILED_SYMBOL_NOT_FOUND", "FAILED_INSUFFICIENT_FUNDS"}

\* The cash balance the i-th order attempt of the history started from.
CashBefore(txs, i) == IF i = 1 THEN start_balance ELSE txs[i - 1].cash_balance

\* C1: a market buy (shares > 0) that returns SUCCESSFUL debits
\* shares * simulated_price + fee from the cash balance and raises the share
\* count of the symbol's holding (0 when absent) by exactly shares.
C1_SuccessfulBuyDebitsAndFills ==
    [][\A s \in Symbols, n \in ShareQuantities :
          (/\ market_order(s, n)
           /\ n > 0
           /\ fault' = NoFault
           /\ Last(transactions').status = "SUCCESSFUL")
          => /\ cash_balance' = cash_balance
                                - n * Last(transactions').simulated_price[1]
                                - transaction_fees
             /\ SharesOf(holdings', s) = SharesOf(holdings, s) + n]_vars

\* Start balance 10000, fee 5, resolution not daily: a market buy of 10 shares
\* quoted 100 has just been booked, the cash is 8995 and the holding has 10 shares.
C1_Witness ==
    /\ start_balance = 10000 /\ transaction_fees = 5 /\ resolution # "DAILY"
    /\ Len(transactions) = 1
    /\ transactions[1].order_type = "Market Order"
    /\ transactions[1].status = "SUCCESSFUL"
    /\ transactions[1].nb_shares = 10
    /\ transactions[1].simulated_price = Some(100)
    /\ cash_balance = 8995
    /\ SharesOf(holdings, transactions[1].symbol) = 10

\* C2: an order attempt whose symbol has no price at the current timestamp
\* yields a FAILED_SYMBOL_NOT_FOUND transaction without simulated price,
\* appended to the history, and leaves cash and holdings unchanged.
C2_NoPriceFailsAndIsRecorded ==
    [][/\ \A s \in Symbols, n \in ShareQuantities :
             (market_order(s, n) /\ get_price(s) = None)
             => /\ fault' = NoFault
                /\ Len(transactions') = Len(transactions) + 1
                /\ SubSeq(transactions', 1, Len(transactions)) = transactions
                /\ Last(transactions').symbol = s
                /\ Last(transactions').nb_shares = n
                /\ Last(transactions').status = "FAILED_SYMBOL_NOT_FOUND"
                /\ Last(transactions').simulated_price = None
                /\ cash_balance' = cash_balance
                /\ holdings' = holdings
       /\ \A i \in (Len(transactions) + 1)..Len(transactions') :
             get_price(transactions'[i].symbol) = None
             => /\ transactions'[i].status = "FAILED_SYMBOL_NOT_FOUND"
                /\ transactions'[i].simulated_price = None
                /\ transactions'[i].cash_balance = CashBefore(transactions', i)]_vars

\* A market order on a symbol without price was recorded after a successful one:
\* the cash and the holding of the first fill are still there.
C2_Witness ==
    /\ Len(transactions) = 2
    /\ transactions[1].status = "SUCCESSFUL"
    /\ transactions[2].status = "FAILED_SYMBOL_NOT_FOUND"
    /\ transactions[2].theoretical_price = None
    /\ transactions[2].nb_shares = 10
    /\ cash_balance = transactions[1].cash_balance
    /\ Len(holdings) = 1

\* C3: an order attempt with a price whose cost shares * price + fee exceeds the
\* cash it starts from is FAILED_INSUFFICIENT_FUNDS and changes neither cash nor
\* holdings; an attempt whose cost the cash covers is SUCCESSFUL.
C3_FundsCheck ==
    [][/\ \A i \in (Len(transactions) + 1)..Len(transactions') :
             LET tx == transactions'[i]
                 before == CashBefore(transactions', i)
             IN tx.simulated_price # None
                => LET total == tx.nb_shares * tx.simulated_price[1] + tx.transaction_fees
                   IN /\ total > before
                         => /\ tx.status = "FAILED_INSUFFICIENT_FUNDS"
                            /\ tx.cash_balance = before
                      /\ before >= total => tx.status = "SUCCESSFUL"
       /\ (/\ Len(transactions') > Len(transactions)
           /\ \A i \in (Len(transactions) + 1)..Len(transactions') :
                 transactions'[i].status = "FAILED_INSUFFICIENT_FUNDS")
          => /\ cash_balance' = cash_balance
             /\ holdings' = holdings
             /\ Last(transactions').cash_balance = cash_balance]_vars

\* A buy the cash does not cover was refused after an earlier fill.
C3_Witness ==
    /\ Len(transactions) = 2
    /\ transactions[1].status = "SUCCESSFUL"
    /\ transactions[2].status = "FAILED_INSUFFICIENT_FUNDS"
    /\ transactions[2].nb_shares * transactions[2].simulated_price[1]
         + transactions[2].transaction_fees > transactions[1].cash_balance
    /\ cash_balance = transactions[1].cash_balance
    /\ Len(holdings) = 1

\* C4: every order attempt ends without a fault and appends exactly one
\* transaction carrying one of the three statuses; the previous history is a
\* prefix of the current one.
C4_EveryAttemptRecordsOneTransaction ==
    [][/\ IsPrefix(transactions, transactions')
       /\ \A s \in Symbols, n \in ShareQuantities :
             market_order(s, n)
             => /\ fault' = NoFault
                /\ Len(transactions') = Len(transactions) + 1
                /\ Last(transactions').status \in Statuses]_vars

\* C5: no holding of the ledger has zero shares, and a symbol whose successful
\* fills sum to zero is absent from the ledger.
RECURSIVE NetShares(_, _)
NetShares(txs, symbol) ==
    IF txs = <<>> THEN 0
    ELSE NetShares(SubSeq(txs, 1, Len(txs) - 1), symbol)
         + (IF Last(txs).symbol = symbol /\ Last(txs).status = "SUCCESSFUL"
            THEN Last(txs).nb_shares ELSE 0)

C5_NoZeroShareHolding ==
    /\ \A i \in 1..Len(holdings) : holdings[i].nb_shares # 0
    /\ \A s \in Symbols : NetShares(transactions, s) = 0 => ~HasHolding(holdings, s)

\* A position of 10 shares was opened and then closed exactly to zero.
C5_Witness ==
    /\ Len(transactions) = 2
    /\ transactions[1].status = "SUCCESSFUL" /\ transactions[1].nb_shares = 10
    /\ transactions[2].status = "SUCCESSFUL" /\ transactions[2].nb_shares = -10
    /\ transactions[2].symbol = transactions[1].symbol
    /\ holdings = <<>>
    /\ fault = NoFault

\* C6: a tick that acts on a pending order removes it from its pending
\* collection, so that an order yields at most one transaction.
C6_TriggeredOrderIsConsumed ==
    [][(on_resolution /\ Len(transactions') > Len(transactions))
       => PendingCount' < PendingCount]_vars

\* C7: each conditional entry point appends one Order to its own collection and
\* leaves the other three alone; buys store +shares, sells store -shares.
C7_EntryPointsUseTheirOwnCollection ==
    [][\A s \in Symbols, n \in OrderQuantities, t \in TriggerPrices :
          /\ buy_limit_order(s, n, t)
             => /\ pending_buy_limit_orders'
                     = Append(pending_buy_limit_orders, Order(s, n, t))
                /\ UNCHANGED <<pending_sell_limit_orders, pending_buy_stop_orders,
                               pending_sell_stop_orders>>
          /\ sell_limit_order(s, n, t)
             => /\ pending_sell_limit_orders'
                     = Append(pending_sell_limit_orders, Order(s, -n, t))
                /\ UNCHANGED <<pending_buy_limit_orders, pending_buy_stop_orders,
                               pending_sell_stop_orders>>
          /\ buy_stop_order(s, n, t)
             => /\ pending_buy_stop_orders'
                     = Append(pending_buy_stop_orders, Order(s, n, t))
                /\ UNCHANGED <<pending_buy_limit_orders, pending_sell_limit_orders,
                               pending_sell_stop_orders>>
          /\ sell_stop_order(s, n, t)
             => /\ pending_sell_stop_orders'
                     = Append(pending_sell_stop_orders, Order(s, -n, t))
                /\ UNCHANGED <<pending_buy_limit_orders, pending_sell_limit_orders,
                               pending_buy_stop_orders>>]_vars

\* C8: a conditional order with zero shares is rejected and leaves the four
\* pending collections unchanged, and a zero-share market order is rejected
\* rather than recorded as a transaction.
C8_ZeroShareOrdersAreRejected ==
    [][/\ \A s \in Symbols, t \in TriggerPrices :
             (\/ buy_limit_order(s, 0, t) \/ sell_limit_order(s, 0, t)
              \/ buy_stop_order(s, 0, t) \/ sell_stop_order(s, 0, t))
             => (fault' # NoFault /\ UNCHANGED Pending)
       /\ \A s \in Symbols :
             market_order(s, 0) => (fault' # NoFault /\ transactions' = transactions)]_vars

\* The pending orders of a collection whose condition holds at the current
\* price, as <<symbol, nb_shares>>, in submission order.
RECURSIVE Due(_, _)
Due(orders, cmp) ==
    IF orders = <<>> THEN <<>>
    ELSE LET order == Head(orders)
             price == get_price(order.symbol)
             rest == Due(Tail(orders), cmp)
         IN IF price # None /\ (IF cmp = "le" THEN price[1] <= order.price
                                              ELSE price[1] >= order.price)
            THEN <<(<<order.symbol, order.nb_shares>>)>> \o rest
            ELSE rest

\* The attempts a step recorded, as <<symbol, nb_shares>>.
Attempts(txs) == [i \in 1..Len(txs) |-> <<txs[i].symbol, txs[i].nb_shares>>]

RECURSIVE OfType(_, _)
OfType(txs, order_type) ==
    IF txs = <<>> THEN <<>>
    ELSE IF Head(txs).order_type = order_type
         THEN <<Head(txs)>> \o OfType(Tail(txs), order_type)
         ELSE OfType(Tail(txs), order_type)

\* C9: a tick submits a pending buy order exactly when the current price is <=
\* its trigger price and a pending sell order exactly when the current price is
\* >= its trigger price; the other orders yield no transaction and every order
\* stays pending.
C9_TickSubmitsExactlyTheDueOrders ==
    [][on_resolution
       => /\ Attempts(AppendedBy(transactions, transactions'))
               = Due(pending_buy_stop_orders, "le")
                 \o Due(pending_sell_stop_orders, "ge")
                 \o Due(pending_buy_limit_orders, "le")
                 \o Due(pending_sell_limit_orders, "ge")
          /\ UNCHANGED Pending]_vars

\* C10: a sell-stop order does not fire while the price is still above its
\* trigger price: on a tick where the price of every pending sell-stop order's
\* symbol is above the order's trigger price, no "Sell Stop Order" transaction
\* is recorded.
C10_SellStopWaitsForTheDrop ==
    [][(/\ on_resolution
        /\ \A i \in 1..Len(pending_sell_stop_orders) :
              LET order == pending_sell_stop_orders[i] IN
              get_price(order.symbol) # None
              /\ get_price(order.symbol)[1] > order.price)
       => OfType(AppendedBy(transactions, transactions'), "Sell Stop Order") = <<>>]_vars

(* ==================== properties, second part ========================== *)
\* The orders of a collection that were appended by the given entry point.
RECURSIVE SubmittedVia(_, _, _)
SubmittedVia(orders, entries, entry) ==
    IF orders = <<>> THEN <<>>
    ELSE IF Head(entries) = entry
         THEN <<Head(orders)>> \o SubmittedVia(Tail(orders), Tail(entries), entry)
         ELSE SubmittedVia(Tail(orders), Tail(entries), entry)

\* All pending orders submitted through one entry point, in submission order
\* within each collection.
AllSubmittedVia(entry) ==
    SubmittedVia(pending_buy_stop_orders, submitted_as.buy_stop, entry)
    \o SubmittedVia(pending_sell_stop_orders, submitted_as.sell_stop, entry)
    \o SubmittedVia(pending_buy_limit_orders, submitted_as.buy_limit, entry)
    \o SubmittedVia(pending_sell_limit_orders, submitted_as.sell_limit, entry)

\* <<symbol, nb_shares, label>> of the orders of a list that are due.
RECURSIVE DueLabelled(_, _, _)
DueLabelled(orders, cmp, label) ==
    IF orders = <<>> THEN <<>>
    ELSE LET order == Head(orders)
             price == get_price(order.symbol)
             rest == DueLabelled(Tail(orders), cmp, label)
         IN IF price # None /\ (IF cmp = "le" THEN price[1] <= order.price
                                              ELSE price[1] >= order.price)
            THEN <<(<<order.symbol, order.nb_shares, label>>)>> \o rest
            ELSE rest

LabelledAttempts(txs) ==
    [i \in 1..Len(txs) |-> <<txs[i].symbol, txs[i].nb_shares, txs[i].order_type>>]

\* What C11 expects a complete tick to record.
ExpectedOfTick ==
    DueLabelled(AllSubmittedVia("buy_stop_order"), "le", "Buy Stop Order")
    \o DueLabelled(AllSubmittedVia("sell_stop_order"), "ge", "Sell Stop Order")
    \o DueLabelled(AllSubmittedVia("buy_limit_order"), "le", "Buy Limit Order")
    \o DueLabelled(AllSubmittedVia("sell_limit_order"), "ge", "Sell Limit Order")

\* C11: the transactions of one tick are those of the due buy-stop orders, then
\* of the due sell-stop orders, then of the due buy-limit orders, then of the
\* due sell-limit orders, each labeled after the entry point the order was
\* submitted through.  (Stated so that a tick an exception cuts short is held
\* to the beginning of that sequence only.)
C11_TickOrderAndLabels ==
    [][on_resolution
       => /\ IsPrefix(LabelledAttempts(AppendedBy(transactions, transactions')),
                      ExpectedOfTick)
          /\ fault' = NoFault
             => LabelledAttempts(AppendedBy(transactions, transactions'))
                  = ExpectedOfTick]_vars

\* The position in a symbol that results from filling the SUCCESSFUL
\* transactions of a history, each at its simulated price; a position that
\* has come back to zero shares starts afresh.
RECURSIVE Booked(_, _)
Booked(txs, symbol) ==
    IF txs = <<>> THEN Holding(symbol)
    ELSE LET prev == Booked(SubSeq(txs, 1, Len(txs) - 1), symbol)
             base == IF prev.nb_shares = 0 THEN Holding(symbol) ELSE prev
             tx == Last(txs)
         IN IF tx.symbol = symbol /\ tx.status = "SUCCESSFUL"
            THEN add_shares(base, tx.nb_shares, tx.simulated_price[1])
            ELSE prev

\* C12: the simulated price of a priced attempt is the theoretical price when
\* the resolution is not daily, and theoretical + (high - theoretical) *
\* slippage_percent / 100 when it is daily; the funds check and the debit use
\* it, and it is the price at which the fill is entered in the holding.
C12_SimulatedPrice ==
    [][/\ \A s \in Symbols :
             (Len(transactions') > Len(transactions) /\ HasHolding(holdings', s))
             => LET held == holdings'[IndexOf(holdings', s)]
                    booked == Booked(transactions', s)
                IN /\ held.nb_shares = booked.nb_shares
                   /\ held.average_price = booked.average_price
       /\ \A i \in (Len(transactions) + 1)..Len(transactions') :
             LET tx == transactions'[i]
                 before == CashBefore(transactions', i)
             IN tx.simulated_price # None
                => /\ tx.theoretical_price = get_price(tx.symbol)
                   /\ tx.theoretical_price # None
                   /\ resolution # "DAILY" => tx.simulated_price = tx.theoretical_price
                   /\ resolution = "DAILY"
                      => /\ get_high_price(tx.symbol) # None
                         /\ 100 * tx.simulated_price[1]
                              = 100 * tx.theoretical_price[1]
                                + (get_high_price(tx.symbol)[1] - tx.theoretical_price[1])
                                  * slippage_percent
                   /\ LET total == tx.nb_shares * tx.simulated_price[1] + transaction_fees
                      IN /\ tx.status = "SUCCESSFUL" <=> before >= total
                         /\ tx.status = "SUCCESSFUL" => tx.cash_balance = before - total
                         /\ tx.status # "SUCCESSFUL" => tx.cash_balance = before]_vars

\* Daily resolution, slippage 10%: a buy of 10 shares quoted 100 on a day whose
\* high is 110 was filled at 101, 10 * 101 + 5 was debited from 10000, and the
\* holding has 10 shares entered at 101.
C12_Witness ==
    /\ resolution = "DAILY" /\ slippage_percent = 10
    /\ Len(transactions) = 1
    /\ transactions[1].theoretical_price = Some(100)
    /\ get_high_price(transactions[1].symbol) = Some(110)
    /\ transactions[1].simulated_price = Some(101)
    /\ transactions[1].nb_shares = 10
    /\ transactions[1].status = "SUCCESSFUL"
    /\ cash_balance = 8985
    /\ Len(holdings) = 1
    /\ holdings[1].nb_shares = 10
    /\ holdings[1].average_price = Ratio(101, 1)

\* C13: under daily resolution an attempt whose theoretical price is available
\* and whose daily high is not records a FAILED_SYMBOL_NOT_FOUND transaction
\* without simulated price, raises nothing and leaves cash and holdings alone.
C13_MissingDailyHighFailsAsData ==
    [][\A s \in Symbols, n \in ShareQuantities :
          (/\ market_order(s, n)
           /\ resolution = "DAILY"
           /\ timestamp # None
           /\ get_price(s) # None
           /\ get_high_price(s) = None)
          => /\ fault' = NoFault
             /\ Len(transactions') = Len(transactions) + 1
             /\ Last(transactions').status = "FAILED_SYMBOL_NOT_FOUND"
             /\ Last(transactions').simulated_price = None
             /\ cash_balance' = cash_balance
             /\ holdings' = holdings]_vars

\* The value of a ledger at the current prices.
RECURSIVE ValueOf(_)
ValueOf(hs) ==
    IF hs = <<>> THEN 0
    ELSE Head(hs).nb_shares * get_price(Head(hs).symbol)[1] + ValueOf(Tail(hs))

\* C14: update_and_get_balance sets the mark price of every holding to the
\* current price of its symbol and returns cash_balance plus the sum of
\* shares * mark_price over the holdings (the cash balance when there are none).
C14_ValuationMarksAndSums ==
    [][update_and_get_balance
       => /\ fault' = NoFault
          /\ returned_balance' # None
          /\ Len(holdings') = Len(holdings)
          /\ \A i \in 1..Len(holdings) :
                /\ holdings'[i].symbol = holdings[i].symbol
                /\ holdings'[i].nb_shares = holdings[i].nb_shares
                /\ holdings'[i].current_price # None
                /\ holdings'[i].current_price = get_price(holdings[i].symbol)
          /\ returned_balance' = Some(cash_balance + ValueOf(holdings))]_vars

\* returned_balance holds a value only in the state a valuation has just
\* produced: every other operation clears it.
JustValued == returned_balance # None

\* C15: a second update_and_get_balance directly after a first one, with no
\* change in between, returns the same value and leaves the portfolio as the
\* first call left it.
C15_ValuationIsIdempotent ==
    [][(update_and_get_balance /\ JustValued)
       => /\ returned_balance' = returned_balance
          /\ holdings' = holdings
          /\ cash_balance' = cash_balance
          /\ transactions' = transactions
          /\ fault' = NoFault]_vars

\* A portfolio with a holding has just been valued, and valuing it again is
\* possible.
C15_Witness ==
    /\ JustValued
    /\ Len(holdings) >= 1
    /\ holdings[1].current_price = get_price(holdings[1].symbol)
    /\ returned_balance[1] # cash_balance
    /\ ENABLED update_and_get_balance

\* A submission through any of the four conditional-order entry points.
AnySubmission ==
    \E s \in Symbols, n \in OrderQuantities, t \in TriggerPrices :
       \/ buy_limit_order(s, n, t)
       \/ sell_limit_order(s, n, t)
       \/ buy_stop_order(s, n, t)
       \/ sell_stop_order(s, n, t)

\* Two ledgers with the same symbols and share counts, in the same order.
SameShares(a, b) ==
    /\ Len(a) = Len(b)
    /\ \A i \in 1..Len(a) : /\ a[i].symbol = b[i].symbol
                            /\ a[i].nb_shares = b[i].nb_shares

\* C16: the four submissions, update_and_get_balance and get_percentage_profit
\* leave cash, history, start balance and every share count unchanged; a
\* submission leaves the holdings untouched, and update_and_get_balance
\* changes nothing of the portfolio but the holdings' mark prices.
C16_OnlyOrdersWriteCashAndHistory ==
    [][/\ (AnySubmission \/ update_and_get_balance \/ get_percentage_profit)
          => /\ cash_balance' = cash_balance
             /\ transactions' = transactions
             /\ start_balance' = start_balance
             /\ SameShares(holdings, holdings')
       /\ AnySubmission => holdings' = holdings
       /\ update_and_get_balance
          => UNCHANGED <<Config, Pending, cash_balance, transactions>>]_vars

\* A loss has been reported on a portfolio that holds shares: the holding was
\* marked, the cash and the history are those of the one order.
C16_Witness ==
    /\ returned_profit # None
    /\ returned_profit[1] < 0
    /\ Len(holdings) = 1
    /\ holdings[1].current_price # None
    /\ Len(transactions) = 1
    /\ cash_balance = transactions[1].cash_balance
    /\ PendingCount = 1

\* Some pending order is for a symbol that has no price at this tick.
AllPending ==
    pending_buy_stop_orders \o pending_sell_stop_orders
    \o pending_buy_limit_orders \o pending_sell_limit_orders

SomePendingUnpriced ==
    \E i \in 1..Len(AllPending) : get_price(AllPending[i].symbol) = None

\* C17: a tick with a pending order whose symbol has no price still completes
\* without a fault, evaluates the other orders of all four collections, and
\* changes cash and holdings only through the orders that are due. Stated
\* where no slippage is simulated, so that the tick's own lookup is the only
\* price read that can come back empty.
C17_MissingPriceDoesNotStopTheTick ==
    [][(on_resolution /\ SomePendingUnpriced /\ resolution # "DAILY")
       => /\ fault' = NoFault
          /\ Attempts(AppendedBy(transactions, transactions'))
               = Due(pending_buy_stop_orders, "le")
                 \o Due(pending_sell_stop_orders, "ge")
                 \o Due(pending_buy_limit_orders, "le")
                 \o Due(pending_sell_limit_orders, "ge")
          /\ (Len(transactions') = Len(transactions)
              => cash_balance' = cash_balance /\ holdings' = holdings)]_vars

\* C18: every transaction records the cash balance as it stands right after
\* its attempt (after the debit when SUCCESSFUL, the balance before the attempt
\* for the two failed statuses), the timestamp current at the attempt, and has
\* no simulated price exactly when its status is FAILED_SYMBOL_NOT_FOUND.
C18_TransactionSnapshot ==
    [][/\ \A i \in (Len(transactions) + 1)..Len(transactions') :
             LET tx == transactions'[i]
                 before == IF i = Len(transactions) + 1 THEN cash_balance
                           ELSE transactions'[i - 1].cash_balance
             IN /\ tx.status \in Statuses
                /\ tx.timestamp = timestamp
                /\ (tx.simulated_price = None) <=> (tx.status = "FAILED_SYMBOL_NOT_FOUND")
                /\ tx.status = "SUCCESSFUL"
                   => tx.cash_balance = before - (tx.nb_shares * tx.simulated_price[1]
                                                  + tx.transaction_fees)
                /\ tx.status # "SUCCESSFUL" => tx.cash_balance = before
       /\ Len(transactions') > Len(transactions)
          => Last(transactions').cash_balance = cash_balance']_vars

\* A history with a filled order followed by an order for a symbol without a
\* price, both placed at timestamp 1: the first records the debited balance,
\* the second repeats it and has no simulated price.
C18_Witness ==
    /\ Len(transactions) = 2
    /\ transactions[1].status = "SUCCESSFUL"
    /\ transactions[1].nb_shares = 10
    /\ transactions[1].timestamp = Some(1)
    /\ transactions[1].cash_balance
         = start_balance - (10 * transactions[1].simulated_price[1] + transaction_fees)
    /\ transactions[2].status = "FAILED_SYMBOL_NOT_FOUND"
    /\ transactions[2].simulated_price = None
    /\ transactions[2].timestamp = Some(1)
    /\ transactions[2].cash_balance = transactions[1].cash_balance
    /\ cash_balance = transactions[2].cash_balance

\* C19: with a start balance and a fee that are not negative, the cash
\* balance is never negative.
C19_CashNeverNegative ==
    (start_balance >= 0 /\ transaction_fees >= 0) => cash_balance >= 0

\* A purchase has left less cash than the next purchase needed, which was
\* refused: the balance is what the first one left.
C19_Witness ==
    /\ Len(transactions) = 2
    /\ transactions[1].status = "SUCCESSFUL"
    /\ transactions[1].nb_shares > 0
    /\ transactions[2].status = "FAILED_INSUFFICIENT_FUNDS"
    /\ transactions[2].nb_shares > 0
    /\ cash_balance = transactions[1].cash_balance
    /\ cash_balance < transactions[2].nb_shares * transactions[2].simulated_price[1]

\* What the SUCCESSFUL transactions of a history have cost in all.
RECURSIVE TotalCost(_)
TotalCost(txs) ==
    IF txs = <<>> THEN 0
    ELSE TotalCost(Tail(txs))
         + (IF Head(txs).status = "SUCCESSFUL"
            THEN Head(txs).nb_shares * Head(txs).simulated_price[1]
                 + Head(txs).transaction_fees
            ELSE 0)

\* C20: the state can be rebuilt from the history. The cash balance is the
\* start balance less the cost (shares * simulated price + fee) of the
\* SUCCESSFUL transactions; the share count of every symbol in the ledger is
\* the sum of the signed shares of its SUCCESSFUL transactions, and a symbol
\* is absent from the ledger exactly when that sum is zero.
C20_StateFollowsFromHistory ==
    /\ cash_balance = start_balance - TotalCost(transactions)
    /\ \A s \in Symbols :
          /\ HasHolding(holdings, s) <=> NetShares(transactions, s) # 0
          /\ HasHolding(holdings, s)
             => /\ SharesOf(holdings, s) = NetShares(transactions, s)
                /\ Cardinality({i \in 1..Len(holdings) : holdings[i].symbol = s}) = 1

\* Two fills of AAPL: 10 shares sold short, then 10 bought back; cash is short
\* of the start balance by the two fees and the price difference, and AAPL
\* is out of the ledger again.
C20_Witness ==
    /\ Len(transactions) = 2
    /\ \A i \in 1..2 : /\ transactions[i].status = "SUCCESSFUL"
                       /\ transactions[i].symbol = "AAPL"
    /\ transactions[1].nb_shares = -10
    /\ transactions[2].nb_shares = 10
    /\ ~HasHolding(holdings, "AAPL")
    /\ cash_balance = start_balance - 2 * transaction_fees
                      + 10 * transactions[1].simulated_price[1]
                      - 10 * transactions[2].simulated_price[1]

====
